---- MODULE Spec2Model ----
(***************************************************************************)
(* State-machine model of the 4heat device client (FourHeatDevice in       *)
(* _4heat.py): the gate flag _command_is_running, the cooldown task        *)
(* _i_am_lazy, the command dispatcher async_send_command, the response     *)
(* parser inside send_and_receive and the facade operations.               *)
(*                                                                         *)
(* Callers are asyncio tasks on one event loop.  `running` is the task     *)
(* that currently executes on the loop thread: a task keeps the loop from  *)
(* one await that really suspends (asyncio.sleep) to the next, and the     *)
(* socket calls of send_and_receive are blocking calls made on the loop    *)
(* thread.                                                                 *)
(*                                                                         *)
(* Python str values are sequences of one-character strings; Python int    *)
(* values are sequences of decimal digits 0..9, most significant first,    *)
(* without leading zeros (the 12-digit field exceeds 32-bit integers).     *)
(***************************************************************************)
EXTENDS Integers, Sequences, FiniteSets, TLC

\* ---------------------------------------------------------------- bounds
MaxCalls == 3

Tasks == {"t1", "t2"}
NoTask == "none"

\* ------------------------------------------------------- str / int helpers
DigitChars == <<"0", "1", "2", "3", "4", "5", "6", "7", "8", "9">>

Min2(a, b) == IF a < b THEN a ELSE b

\* s[a:b]
PySlice(s, a, b) == SubSeq(s, a + 1, Min2(b, Len(s)))

\* s[a:]
PyFrom(s, a) == SubSeq(s, a + 1, Len(s))

IsDigitChar(c) == \E d \in 1..10 : DigitChars[d] = c

DigitOf(c) == (CHOOSE d \in 1..10 : DigitChars[d] = c) - 1

\* the texts int() accepts (signs, blanks and underscores are not sent)
IsNumeral(s) == Len(s) > 0 /\ \A i \in 1..Len(s) : IsDigitChar(s[i])

RECURSIVE StripZeros(_)
StripZeros(n) == IF Len(n) > 1 /\ n[1] = 0 THEN StripZeros(Tail(n)) ELSE n

\* int(s) for a numeral s
int(s) == StripZeros([i \in 1..Len(s) |-> DigitOf(s[i])])

\* str(n) for a non-negative int n
str(n) == [i \in 1..Len(n) |-> DigitChars[n[i] + 1]]

RECURSIVE Zeros(_)
Zeros(k) == IF k <= 0 THEN <<>> ELSE <<"0">> \o Zeros(k - 1)

\* s.zfill(w)
zfill(s, w) == IF Len(s) >= w THEN s ELSE Zeros(w - Len(s)) \o s

VALUE_WIDTH == 12

\* f"{typeChar}{id}{str(value).zfill(12)}"
encodeToken(typeChar, id, val) == <<typeChar>> \o id \o zfill(str(val), VALUE_WIDTH)

\* ------------------------------------------------ constants of const.py
RESULT_INFO == <<"S", "E", "L">>
RESULT_OK == <<"S", "E", "C">>
RESULT_ERROR == <<"E", "R", "R">>

INFO_COMMAND == "info"
GET_COMMAND == "get"
SET_COMMAND == "set"
ON_COMMAND == "on"
OFF_COMMAND == "off"
UNBLOCK_COMMAND == "unblock"

DEVICE_STATE_SENSOR == <<"3", "0", "0", "0", "1">>
ID_POWER == <<"2", "0", "1", "8", "0">>
ID_ON == <<"3", "0", "2", "5", "3">>
ID_OFF == <<"3", "0", "2", "5", "4">>
ID_UNBLOCK == <<"3", "0", "2", "5", "5">>
ID_ABSENT == <<"0", "0", "5", "0", "0">>

INFO_QUERY == <<RESULT_INFO, <<"0">>>>
ERROR_QUERY == <<RESULT_OK, <<"1">>, encodeToken("I", DEVICE_STATE_SENSOR, <<0>>)>>

\* CONF_MODES[CONF_MODE[mode]]: logical command name -> base query tokens
commands ==
  [info |-> INFO_QUERY,
   get |-> <<RESULT_OK, <<"1">>>>,
   set |-> <<RESULT_OK, <<"1">>>>,
   on |-> <<RESULT_OK, <<"1">>, encodeToken("J", ID_ON, <<1>>)>>,
   off |-> <<RESULT_OK, <<"1">>, encodeToken("J", ID_OFF, <<1>>)>>,
   unblock |-> <<RESULT_OK, <<"1">>, encodeToken("J", ID_UNBLOCK, <<1>>)>>]

\* ------------------------------------------------------------ exceptions
None == [kind |-> "None"]

\* an exception object: its class, its __cause__ and the exchange it arose in
Exc(kind, cause, n) == [kind |-> kind, cause |-> cause, id |-> n]

Returned(v) == [tag |-> "ret", val |-> v]
Raised(e) == [tag |-> "exc", exc |-> e]
NoResult == [tag |-> "none"]

\* ------------------------------------------- the device (environment)
\* decoded response texts: "", a list literal, a list literal cut short
EmptyText == [form |-> "empty", items |-> <<>>]
ListText(items) == [form |-> "list", items |-> items]
Unterminated(items) == [form |-> "unterminated", items |-> items]
NoText == [form |-> "none", items |-> <<>>]

V7 == <<7>>
VBIG == <<1, 0, 0, 0, 0, 0, 0, 0, 0, 0, 0, 7>>
WrittenValues == {V7, VBIG}

SHORT_TOKEN == <<"E", "R", "R", "0", "0", "0">>
SEVEN_TOKEN == <<"J">> \o DEVICE_STATE_SENSOR \o <<"0">>

\* a response list: the status, the reserved element, the sensor tokens
Answer(st, toks) == ListText(<<st, <<"0">>>> \o toks)

\* what the device sends back to an info query
InfoAnswers ==
  { Answer(RESULT_INFO, <<encodeToken("J", DEVICE_STATE_SENSOR, <<5>>),
                          encodeToken("B", ID_POWER, V7)>>),
    Answer(RESULT_INFO, <<encodeToken("I", ID_ABSENT, <<1, 2, 3>>)>>),
    Answer(RESULT_OK, <<SHORT_TOKEN, encodeToken("B", ID_POWER, <<4, 2>>)>>),
    Answer(RESULT_INFO, <<SEVEN_TOKEN>>),
    Answer(RESULT_ERROR, <<>>),
    Answer(<<"X">>, <<encodeToken("B", ID_POWER, <<4, 2>>)>>) }

\* what the device sends back to a get, set or control query
AckAnswers ==
  { Answer(RESULT_OK, <<>>),
    Answer(RESULT_ERROR, <<encodeToken("A", ID_POWER, V7)>>),
    Answer(RESULT_OK, <<encodeToken("A", ID_POWER, V7)>>),
    Answer(RESULT_OK, <<encodeToken("A", ID_POWER, VBIG)>>),
    Answer(RESULT_OK, <<encodeToken("B", ID_POWER, V7)>>),
    Answer(RESULT_OK, <<encodeToken("I", ID_ON, <<0>>)>>),
    Answer(RESULT_OK, <<encodeToken("I", ID_ON, V7)>>) }

\* what recv may return for query q: nothing, a cut literal, or an answer
Replies(q) ==
  {EmptyText, Unterminated(<<RESULT_OK>>)}
  \cup (IF q[1] = RESULT_INFO THEN InfoAnswers ELSE AckAnswers)

\* ------------------------------------------------------ response parser
Reading(sensor) ==
  [id |-> PySlice(sensor, 1, 6),
   sensor_type |-> sensor[1],
   value |-> int(PyFrom(sensor, 7))]

LongEnough(sensor) == Len(sensor) > 6

\* literal_eval and the loop over result[2:]; the class of the exception raised
ParseError(text) ==
  IF text.form # "list" THEN "SyntaxError"
  ELSE IF Len(text.items) = 0 THEN "IndexError"
  ELSE LET kept == SelectSeq(PyFrom(text.items, 2), LongEnough)
       IN IF \E i \in 1..Len(kept) : ~IsNumeral(PyFrom(kept[i], 7))
          THEN "ValueError" ELSE "none"

ParseData(text) ==
  LET kept == SelectSeq(PyFrom(text.items, 2), LongEnough)
  IN [result |-> text.items[1],
      sensors |-> [i \in 1..Len(kept) |-> Reading(kept[i])]]

\* ------------------------------------------------------------------ state
VARIABLES
  pc,                  \* per task: the statement it is at
  stack,               \* per task: the coroutines it is inside, outermost first
  command, arg, query, \* per task: locals of async_send_command / send_and_receive
  attr, value,         \* per task: parameters of async_set_state
  reply,               \* per task: the decoded text soc.recv returned
  result,              \* per task: what the last finished call returned or raised
  running,             \* the task executing on the event loop, or NoTask
  lazy,                \* number of _i_am_lazy tasks created and not yet finished
  command_is_running,  \* FourHeatDevice._command_is_running
  last_error,          \* FourHeatDevice._last_error
  initialized,         \* FourHeatDevice.initialized
  initializing,        \* FourHeatDevice._initializing
  sensors,             \* FourHeatDevice.sensors
  status,              \* FourHeatDevice._status
  self_commands,       \* FourHeatDevice.commands
  soc,                 \* per task: the socket of its exchange: "none", "open", "closed"
  exchanged,           \* per task: the queries of the exchanges its call has begun
  retry_update,        \* FourHeatCoordinator._retry_update
  update_is_running,   \* FourHeatCoordinator._update_is_running
  last_update_success, \* DataUpdateCoordinator.last_update_success
  last_exception,      \* DataUpdateCoordinator.last_exception
  calls,               \* number of calls made by the callers so far
  exchanges            \* number of exchanges begun so far

ctl == <<pc, stack, result, running>>
locals == <<command, arg, query, attr, value, reply, soc, exchanged>>
dev == <<command_is_running, last_error, initialized, initializing, sensors, status,
        self_commands>>
aux == <<lazy, calls, exchanges>>
coord == <<retry_update, update_is_running, last_update_success, last_exception>>
vars == <<ctl, locals, dev, aux, coord>>

\* values of _command_is_running: "", None or the query list
GateStr == [tag |-> "str", val |-> <<>>]
GateNone == [tag |-> "None", val |-> <<>>]
GateQuery(q) == [tag |-> "list", val |-> q]

\* the gate test gone wrong: only a non-empty str counts as busy
GateBusy_str_only == command_is_running.tag = "str" /\ command_is_running.val # <<>>

\* bool(self._command_is_running)
GateBusy == command_is_running.tag # "None" /\ command_is_running.val # <<>>

PyTrue == [kind |-> "True"]
PyInt(n) == [kind |-> "int", val |-> n]

\* ------------------------------------------------------- the sensors dict
SensorsNone == [tag |-> "None", keys |-> <<>>, map |-> <<>>]
SensorsDict(keys, map) == [tag |-> "dict", keys |-> keys, map |-> map]

HasKey(sens, id) == \E i \in 1..Len(sens.keys) : sens.keys[i] = id

\* sens[id] = entry (a new key goes last)
SetItem(sens, id, entry) ==
  SensorsDict(IF HasKey(sens, id) THEN sens.keys ELSE Append(sens.keys, id),
              [k \in DOMAIN sens.map \cup {id} |-> IF k = id THEN entry ELSE sens.map[k]])

Entry(item) == [sensor_type |-> item.sensor_type, value |-> item.value]

\* sensors[item["id"]] = {sensor_type, value} for each item, from an empty dict
RECURSIVE BuildSensors(_, _)
BuildSensors(sens, items) ==
  IF items = <<>> THEN sens
  ELSE BuildSensors(SetItem(sens, Head(items).id, Entry(Head(items))), Tail(items))

\* the merge loop that only inserts: an entry already present is left as it is
RECURSIVE MergeSensors_insert_only(_, _)
MergeSensors_insert_only(sens, items) ==
  IF items = <<>> THEN sens
  ELSE MergeSensors_insert_only(
         IF HasKey(sens, Head(items).id) THEN sens
         ELSE SetItem(sens, Head(items).id, Entry(Head(items))),
         Tail(items))

\* the merge loop of async_update_data: insert {sensor_type, value}, or dict.update(item)
RECURSIVE MergeSensors(_, _)
MergeSensors(sens, items) ==
  IF items = <<>> THEN sens
  ELSE MergeSensors(
         SetItem(sens, Head(items).id,
                 IF HasKey(sens, Head(items).id) THEN Head(items) ELSE Entry(Head(items))),
         Tail(items))

\* getattr(self, DEVICE_STATE_SENSOR) through __getattr__
StateAttr(isInit, sens) ==
  IF ~isInit THEN Returned(None)
  ELSE IF ~HasKey(sens, DEVICE_STATE_SENSOR) THEN Raised(Exc("RecursionError", None, 0))
  ELSE Returned(PyInt(sens.map[DEVICE_STATE_SENSOR].value))

Init ==
  /\ pc = [t \in Tasks |-> "idle"]
  /\ stack = [t \in Tasks |-> <<>>]
  /\ command = [t \in Tasks |-> ""]
  /\ arg = [t \in Tasks |-> <<>>]
  /\ query = [t \in Tasks |-> <<>>]
  /\ attr = [t \in Tasks |-> <<>>]
  /\ value = [t \in Tasks |-> <<0>>]
  /\ reply = [t \in Tasks |-> NoText]
  /\ result = [t \in Tasks |-> NoResult]
  /\ running = NoTask
  /\ lazy = 0
  /\ command_is_running = GateStr
  /\ last_error = None
  /\ initialized = FALSE
  /\ initializing = FALSE
  /\ sensors = SensorsNone
  /\ status = None
  /\ self_commands = commands
  /\ soc = [t \in Tasks |-> "none"]
  /\ exchanged = [t \in Tasks |-> <<>>]
  /\ retry_update = 0
  /\ update_is_running = FALSE
  /\ last_update_success = TRUE
  /\ last_exception = None
  /\ calls = 0
  /\ exchanges = 0

\* ------------------------------------------------- coroutine call / return
\* the event loop runs t when no other task holds the loop thread
CanRun(t) == running = t \/ running = NoTask

\* where a coroutine resumes when the coroutine it awaited finishes
Continuation(frame, callee) ==
  CASE frame = "async_send_command" -> "sc_ret"
    [] frame = "async_update_data" ->
         IF callee = "send_and_receive" THEN "ud_ret_info" ELSE "ud_ret_get"
    [] frame = "initialize" ->
         IF callee = "async_send_command" THEN "in_ret_info" ELSE "in_ret_error"
    [] frame = "async_set_state" -> "ss_ret"
    [] frame = "async_get_state" -> "gs_ret"
    [] frame = "_async_update_data" -> "cu_ret"

Goto(t, label) ==
  /\ pc' = [pc EXCEPT ![t] = label]
  /\ running' = t
  /\ UNCHANGED <<stack, result>>

\* await of something that really suspends: the loop is free again
Suspend(t, label) ==
  /\ pc' = [pc EXCEPT ![t] = label]
  /\ running' = NoTask
  /\ UNCHANGED <<stack, result>>

Await(t, callee, label) ==
  /\ pc' = [pc EXCEPT ![t] = label]
  /\ stack' = [stack EXCEPT ![t] = Append(@, callee)]
  /\ running' = t
  /\ UNCHANGED result

\* the innermost coroutine of t returns or raises res; the outermost one hands
\* res to the caller ("done")
Leave(t, res) ==
  LET n == Len(stack[t])
  IN /\ stack' = [stack EXCEPT ![t] = IF n = 1 THEN @ ELSE SubSeq(@, 1, n - 1)]
     /\ result' = [result EXCEPT ![t] = res]
     /\ pc' = [pc EXCEPT ![t] =
                 IF n = 1 THEN "done"
                 ELSE Continuation(stack[t][n - 1], stack[t][n])]
     /\ running' = t

\* ------------------------------------------------------ send_and_receive
InExchange(t) == pc[t] \in {"sr_connect", "sr_send", "sr_recv", "sr_parse"}

\* the gate test with an await between seeing the gate idle and marking it busy
sr_check_then_yield(t) ==
  /\ pc[t] = "sr_check"
  /\ CanRun(t)
  /\ IF GateBusy THEN Suspend(t, "sr_sleep") ELSE Suspend(t, "sr_enter")
  /\ UNCHANGED <<coord, locals, dev, aux>>

\* while bool(self._command_is_running): await asyncio.sleep(1)
sr_check(t) ==
  /\ pc[t] = "sr_check"
  /\ CanRun(t)
  /\ IF GateBusy THEN Suspend(t, "sr_sleep") ELSE Goto(t, "sr_enter")
  /\ UNCHANGED <<coord, locals, dev, aux>>

\* asyncio.sleep(1) is over
sr_wake(t) ==
  /\ pc[t] = "sr_sleep"
  /\ CanRun(t)
  /\ Goto(t, "sr_check")
  /\ UNCHANGED <<coord, locals, dev, aux>>

\* self._command_is_running = query; soc = socket(AF_INET, SOCK_STREAM)
sr_enter(t) ==
  /\ pc[t] = "sr_enter"
  /\ CanRun(t)
  /\ command_is_running' = GateQuery(query[t])
  /\ exchanges' = exchanges + 1
  /\ reply' = [reply EXCEPT ![t] = NoText]
  /\ soc' = [soc EXCEPT ![t] = "open"]
  /\ exchanged' = [exchanged EXCEPT ![t] = Append(@, query[t])]
  /\ Goto(t, "sr_connect")
  /\ UNCHANGED <<coord, self_commands, command, arg, query, attr, value, last_error, initialized, initializing, sensors, status,
                 lazy, calls>>

\* the except clause without create_task(self._i_am_lazy())
sr_except_no_task(t, err) ==
  LET e == Exc("DeviceConnectionError", err, exchanges)
  IN /\ last_error' = e
     /\ lazy' = lazy
     /\ Leave(t, Raised(e))
     /\ UNCHANGED command_is_running

\* the except clause that also releases the gate at once
sr_except_release(t, err) ==
  LET e == Exc("DeviceConnectionError", err, exchanges)
  IN /\ last_error' = e
     /\ lazy' = lazy + 1
     /\ Leave(t, Raised(e))
     /\ command_is_running' = GateNone

\* except Exception as err: record, schedule the cooldown, re-raise
sr_except(t, err) ==
  LET e == Exc("DeviceConnectionError", err, exchanges)
  IN /\ last_error' = e
     /\ lazy' = lazy + 1
     /\ Leave(t, Raised(e))
     /\ UNCHANGED command_is_running

\* one blocking socket call: it succeeds or raises OSError (refused, timeout, reset)
sr_socket(t, here, next) ==
  /\ pc[t] = here
  /\ CanRun(t)
  /\ \E ok \in BOOLEAN :
       IF ok THEN Goto(t, next) /\ UNCHANGED <<last_error, lazy, command_is_running>>
       ELSE sr_except(t, Exc("OSError", None, exchanges))
  /\ UNCHANGED <<coord, self_commands, locals, initialized, initializing, sensors,
                 status, calls, exchanges>>

sr_connect(t) == sr_socket(t, "sr_connect", "sr_send")

sr_send(t) == sr_socket(t, "sr_send", "sr_recv")

\* result = soc.recv(SOCKET_BUFFER).decode()
sr_recv(t) ==
  /\ pc[t] = "sr_recv"
  /\ CanRun(t)
  /\ \E ok \in BOOLEAN :
       IF ok
       THEN /\ \E r \in Replies(query[t]) : reply' = [reply EXCEPT ![t] = r]
            /\ Goto(t, "sr_parse")
            /\ UNCHANGED <<last_error, lazy, command_is_running>>
       ELSE /\ sr_except(t, Exc("OSError", None, exchanges))
            /\ UNCHANGED reply
  /\ UNCHANGED <<coord, soc, exchanged, self_commands, command, arg, query, attr, value,
                 initialized, initializing, sensors, status, calls, exchanges>>

\* the handling of the decoded text where "" gives a result with nothing in it
ParseOutcome_empty_result(text, n) ==
  IF text.form = "empty" THEN Returned([result |-> <<>>, sensors |-> <<>>])
  ELSE IF ParseError(text) # "none" THEN Raised(Exc(ParseError(text), None, n))
  ELSE Returned(ParseData(text))

\* if result: literal_eval and the sensor loop, else "Got empty answer":
\* the data returned, or the exception raised inside the try
ParseOutcome(text, n) ==
  IF text.form = "empty" THEN Raised(Exc("DeviceConnectionError", None, n))
  ELSE IF ParseError(text) # "none" THEN Raised(Exc(ParseError(text), None, n))
  ELSE Returned(ParseData(text))

\* the success path without self._last_error = None
sr_success_keep_error(t, data) ==
  /\ last_error' = last_error
  /\ command_is_running' = GateNone
  /\ Leave(t, Returned(data))
  /\ UNCHANGED lazy

\* self._last_error = None; self._command_is_running = None; return data
sr_success(t, data) ==
  /\ last_error' = None
  /\ command_is_running' = GateNone
  /\ Leave(t, Returned(data))
  /\ UNCHANGED lazy

\* soc.close() and the handling of the decoded text
sr_parse(t) ==
  /\ pc[t] = "sr_parse"
  /\ CanRun(t)
  /\ soc' = [soc EXCEPT ![t] = "closed"]
  /\ LET out == ParseOutcome(reply[t], exchanges)
     IN IF out.tag = "exc" THEN sr_except(t, out.exc) ELSE sr_success(t, out.val)
  /\ UNCHANGED <<coord, self_commands, command, arg, query, attr, value, reply, exchanged,
                 initialized, initializing, sensors, status, calls, exchanges>>

\* the cooldown task without its last assignment
i_am_lazy_no_reset ==
  /\ lazy > 0
  /\ running = NoTask
  /\ lazy' = lazy - 1
  /\ UNCHANGED <<coord, ctl, locals, dev, calls, exchanges>>

\* await asyncio.sleep(RETRY_UPDATE_SLEEP); self._command_is_running = None
i_am_lazy ==
  /\ lazy > 0
  /\ running = NoTask
  /\ lazy' = lazy - 1
  /\ command_is_running' = GateNone
  /\ UNCHANGED <<coord, self_commands, ctl, locals, last_error, initialized, initializing, sensors,
                 status, calls, exchanges>>

\* ---------------------------------------------------- async_send_command
\* result == RESULT_ERROR: result is the dict send_and_receive returned, never a str
EqualsErrorLiteral(data) == FALSE

\* the `set` condition; "true", "false" or the class of the exception it raises
AckSet(q, data) ==
  IF data.result # q[1] THEN "false"
  ELSE IF Len(data.sensors) = 0 \/ Len(q) < 3 THEN "IndexError"
  ELSE IF data.sensors[1].id # PySlice(q[3], 1, 6) THEN "false"
  ELSE IF ~IsNumeral(PyFrom(q[3], 7)) THEN "ValueError"
  ELSE IF data.sensors[1].value # int(PyFrom(q[3], 7)) THEN "false"
  ELSE IF data.sensors[1].sensor_type # "A" THEN "false"
  ELSE "true"

\* the on / off / unblock condition without the test of the value
AckControl_any_value(q, data) ==
  IF data.result # q[1] THEN "false"
  ELSE IF Len(data.sensors) = 0 \/ Len(q) < 3 THEN "IndexError"
  ELSE IF data.sensors[1].id # PySlice(q[3], 1, 6) THEN "false"
  ELSE IF data.sensors[1].sensor_type # "I" THEN "false"
  ELSE "true"

\* the on / off / unblock condition
AckControl(q, data) ==
  IF data.result # q[1] THEN "false"
  ELSE IF Len(data.sensors) = 0 \/ Len(q) < 3 THEN "IndexError"
  ELSE IF data.sensors[1].id # PySlice(q[3], 1, 6) THEN "false"
  ELSE IF data.sensors[1].value # <<0>> THEN "false"
  ELSE IF data.sensors[1].sensor_type # "I" THEN "false"
  ELSE "true"

\* what async_send_command does with the parsed result
Acknowledge(c, q, data, n) ==
  LET s == IF c = SET_COMMAND THEN AckSet(q, data) ELSE "false"
      o == IF c \in {ON_COMMAND, OFF_COMMAND, UNBLOCK_COMMAND}
           THEN AckControl(q, data) ELSE "false"
  IN IF c = INFO_COMMAND /\ ~EqualsErrorLiteral(data) THEN Returned(data)
     ELSE IF c = INFO_COMMAND THEN Raised(Exc("AttributeError", None, n))
     ELSE IF c = GET_COMMAND THEN Returned(data)
     ELSE IF s = "true" THEN Returned(PyTrue)
     ELSE IF s # "false" THEN Raised(Exc(s, None, n))
     ELSE IF o = "true" THEN Returned(PyTrue)
     ELSE IF o # "false" THEN Raised(Exc(o, None, n))
     ELSE Raised(Exc("InvalidMessage", None, n))

\* the lookup as self.commands.get(command, []): an unknown name is sent as well
sc_entry_no_lookup(t) ==
  /\ pc[t] = "sc_entry"
  /\ CanRun(t)
  /\ query' = [query EXCEPT ![t] =
                 IF command[t] \in DOMAIN self_commands
                 THEN (IF arg[t] # <<>> THEN self_commands[command[t]] \o arg[t]
                       ELSE self_commands[command[t]])
                 ELSE <<RESULT_OK>> \o arg[t]]
  /\ Await(t, "send_and_receive", "sr_check")
  /\ UNCHANGED <<coord, soc, exchanged, command, arg, attr, value, reply, dev, aux>>

\* the query built in place: query = self.commands[command]; query.extend(arg)
sc_entry_extend_in_place(t) ==
  /\ pc[t] = "sc_entry"
  /\ CanRun(t)
  /\ IF command[t] \in DOMAIN self_commands
     THEN /\ query' = [query EXCEPT ![t] = self_commands[command[t]] \o arg[t]]
          /\ self_commands' = [self_commands EXCEPT ![command[t]] = @ \o arg[t]]
          /\ Await(t, "send_and_receive", "sr_check")
     ELSE /\ Leave(t, Raised(Exc("InvalidCommand", None, 0)))
          /\ UNCHANGED <<query, self_commands>>
  /\ UNCHANGED <<coord, soc, exchanged, command, arg, attr, value, reply,
                 command_is_running, last_error, initialized, initializing, sensors, status,
                 aux>>

\* if command in self.commands: build the query and exchange it; else InvalidCommand
sc_entry(t) ==
  /\ pc[t] = "sc_entry"
  /\ CanRun(t)
  /\ IF command[t] \in DOMAIN self_commands
     THEN /\ query' = [query EXCEPT ![t] =
                         IF arg[t] # <<>> THEN self_commands[command[t]] \o arg[t]
                         ELSE self_commands[command[t]]]
          /\ Await(t, "send_and_receive", "sr_check")
     ELSE /\ Leave(t, Raised(Exc("InvalidCommand", None, 0)))
          /\ UNCHANGED query
  /\ UNCHANGED <<coord, soc, exchanged, command, arg, attr, value, reply, dev, aux>>

\* the dispatcher that treats a refused answer as a failed exchange: it schedules
\* _i_am_lazy before raising InvalidMessage
sc_ret_lazy_on_mismatch(t) ==
  /\ pc[t] = "sc_ret"
  /\ CanRun(t)
  /\ LET out == IF result[t].tag = "exc"
                THEN Raised(Exc("FourHeatCommandError", result[t].exc, result[t].exc.id))
                ELSE Acknowledge(command[t], query[t], result[t].val, exchanges)
     IN /\ Leave(t, out)
        /\ lazy' = IF result[t].tag = "ret" /\ out.tag = "exc" THEN lazy + 1 ELSE lazy
  /\ UNCHANGED <<locals, dev, coord, calls, exchanges>>

\* the dispatcher that tries a failed exchange once more before giving up
sc_ret_retry(t) ==
  /\ pc[t] = "sc_ret"
  /\ CanRun(t)
  /\ IF result[t].tag = "exc" /\ Len(exchanged[t]) = 1
     THEN Await(t, "send_and_receive", "sr_check")
     ELSE IF result[t].tag = "exc"
     THEN Leave(t, Raised(Exc("FourHeatCommandError", result[t].exc, result[t].exc.id)))
     ELSE Leave(t, Acknowledge(command[t], query[t], result[t].val, exchanges))
  /\ UNCHANGED <<locals, dev, aux, coord>>

\* the dispatcher without its except clause: DeviceConnectionError passes through
sc_ret_no_wrap(t) ==
  /\ pc[t] = "sc_ret"
  /\ CanRun(t)
  /\ IF result[t].tag = "exc"
     THEN Leave(t, result[t])
     ELSE Leave(t, Acknowledge(command[t], query[t], result[t].val, exchanges))
  /\ UNCHANGED <<coord, locals, dev, aux>>

\* after send_and_receive: validate the answer, or wrap DeviceConnectionError
sc_ret(t) ==
  /\ pc[t] = "sc_ret"
  /\ CanRun(t)
  /\ IF result[t].tag = "exc"
     THEN Leave(t, Raised(Exc("FourHeatCommandError", result[t].exc, result[t].exc.id)))
     ELSE Leave(t, Acknowledge(command[t], query[t], result[t].val, exchanges))
  /\ UNCHANGED <<coord, locals, dev, aux>>

\* ------------------------------------------------------- async_update_data
\* error_query that asks for the state sensor only
ErrorQuery_state_only(keys) == <<encodeToken("I", DEVICE_STATE_SENSOR, <<0>>)>>

\* error_query: one I-token with value 0 for each registered sensor
RECURSIVE ErrorQuery(_)
ErrorQuery(keys) ==
  IF keys = <<>> THEN <<>>
  ELSE <<encodeToken("I", Head(keys), <<0>>)>> \o ErrorQuery(Tail(keys))

\* result = await self.send_and_receive(INFO_QUERY)
ud_entry(t) ==
  /\ pc[t] = "ud_entry"
  /\ CanRun(t)
  /\ query' = [query EXCEPT ![t] = INFO_QUERY]
  /\ Await(t, "send_and_receive", "sr_check")
  /\ UNCHANGED <<coord, soc, exchanged, command, arg, attr, value, reply, dev, aux>>

\* ERROR: ask for every registered sensor with get; otherwise merge the readings
ud_ret_info(t) ==
  /\ pc[t] = "ud_ret_info"
  /\ CanRun(t)
  /\ LET r == result[t] IN
     IF r.tag = "exc"
     THEN /\ Leave(t, Raised(last_error))
          /\ UNCHANGED <<command, arg, sensors, last_error>>
     ELSE IF r.val.result = RESULT_ERROR
     THEN IF sensors.tag = "None" \/ sensors.keys = <<>>
          THEN /\ Leave(t, Raised(Exc("AssertionError", None, exchanges)))
               /\ UNCHANGED <<command, arg, sensors, last_error>>
          ELSE /\ command' = [command EXCEPT ![t] = GET_COMMAND]
               /\ arg' = [arg EXCEPT ![t] = ErrorQuery(sensors.keys)]
               /\ Await(t, "async_send_command", "sc_entry")
               /\ UNCHANGED <<sensors, last_error>>
     ELSE IF sensors.tag = "None" /\ r.val.sensors # <<>>
     THEN /\ Leave(t, Raised(Exc("TypeError", None, exchanges)))
          /\ UNCHANGED <<command, arg, sensors, last_error>>
     ELSE /\ sensors' = IF sensors.tag = "None" THEN sensors
                        ELSE MergeSensors(sensors, r.val.sensors)
          /\ last_error' = None
          /\ Leave(t, Returned(None))
          /\ UNCHANGED <<command, arg>>
  /\ UNCHANGED <<coord, soc, exchanged, self_commands, query, attr, value, reply, command_is_running, initialized,
                 initializing, status, aux>>

\* after the get of the ERROR branch: its result is only logged
ud_ret_get(t) ==
  /\ pc[t] = "ud_ret_get"
  /\ CanRun(t)
  /\ IF result[t].tag = "exc" THEN Leave(t, result[t]) ELSE Leave(t, Returned(None))
  /\ UNCHANGED <<coord, locals, dev, aux>>

\* -------------------------------------------------------------- initialize
\* the end of initialize without the finally: clause
in_finish_keep_guard(t, isInit, sens) ==
  LET s == StateAttr(isInit, sens)
  IN /\ status' = IF s.tag = "ret" THEN s.val ELSE status
     /\ initializing' = initializing
     /\ Leave(t, IF s.tag = "ret" THEN Returned(None) ELSE s)

\* the else: and finally: clauses of initialize, then the return or the raise
in_finish(t, isInit, sens) ==
  LET s == StateAttr(isInit, sens)
  IN /\ status' = IF s.tag = "ret" THEN s.val ELSE status
     /\ initializing' = FALSE
     /\ Leave(t, IF s.tag = "ret" THEN Returned(None) ELSE s)

\* the guard, update_fourheat and the info command
in_entry(t) ==
  /\ pc[t] = "in_entry"
  /\ CanRun(t)
  /\ IF initializing
     THEN /\ Leave(t, Raised(Exc("RuntimeError", None, 0)))
          /\ UNCHANGED <<command, arg, initialized, initializing, status>>
     ELSE /\ initialized' = FALSE
          /\ \E async_init \in BOOLEAN :
               IF async_init
               THEN /\ in_finish(t, FALSE, sensors)
                    /\ UNCHANGED <<command, arg>>
               ELSE /\ initializing' = TRUE
                    /\ command' = [command EXCEPT ![t] = INFO_COMMAND]
                    /\ arg' = [arg EXCEPT ![t] = <<>>]
                    /\ Await(t, "async_send_command", "sc_entry")
                    /\ UNCHANGED status
  /\ UNCHANGED <<coord, soc, exchanged, self_commands, query, attr, value, reply, command_is_running, last_error, sensors, aux>>

\* the answer to info: ERROR -> ERROR_QUERY, INFO/OK -> sensors, else InvalidMessage
in_ret_info(t) ==
  /\ pc[t] = "in_ret_info"
  /\ CanRun(t)
  /\ LET r == result[t] IN
     IF r.tag = "exc"
     THEN /\ initializing' = FALSE
          /\ Leave(t, Raised(Exc("FourHeatError", r.exc, r.exc.id)))
          /\ UNCHANGED <<query, sensors, initialized, last_error, status>>
     ELSE IF r.val.result = RESULT_ERROR
     THEN /\ query' = [query EXCEPT ![t] = ERROR_QUERY]
          /\ Await(t, "send_and_receive", "sr_check")
          /\ UNCHANGED <<sensors, initialized, initializing, last_error, status>>
     ELSE IF r.val.result \in {RESULT_INFO, RESULT_OK}
     THEN /\ sensors' = BuildSensors(SensorsDict(<<>>, <<>>), r.val.sensors)
          /\ initialized' = TRUE
          /\ in_finish(t, TRUE, sensors')
          /\ UNCHANGED <<query, last_error>>
     ELSE /\ last_error' = Exc("InvalidMessage", None, exchanges)
          /\ initializing' = FALSE
          /\ Leave(t, Raised(last_error'))
          /\ UNCHANGED <<query, sensors, initialized, status>>
  /\ UNCHANGED <<coord, soc, exchanged, self_commands, command, arg, attr, value, reply, command_is_running, aux>>

\* the answer to ERROR_QUERY
in_ret_error(t) ==
  /\ pc[t] = "in_ret_error"
  /\ CanRun(t)
  /\ IF result[t].tag = "exc"
     THEN /\ initializing' = FALSE
          /\ Leave(t, Raised(Exc("FourHeatError", result[t].exc, result[t].exc.id)))
          /\ UNCHANGED status
     ELSE in_finish(t, initialized, sensors)
  /\ UNCHANGED <<coord, self_commands, locals, command_is_running, last_error, initialized, sensors, aux>>

\* --------------------------------------------------------- async_set_state
\* async_set_state caching the value before the command is sent
ss_entry_optimistic(t) ==
  /\ pc[t] = "ss_entry"
  /\ CanRun(t)
  /\ IF sensors.tag = "None"
     THEN /\ Leave(t, Raised(Exc("TypeError", None, 0)))
          /\ UNCHANGED <<command, arg, sensors>>
     ELSE IF ~HasKey(sensors, attr[t])
     THEN /\ Leave(t, Raised(Exc("AttributeError", None, 0)))
          /\ UNCHANGED <<command, arg, sensors>>
     ELSE IF sensors.map[attr[t]].sensor_type = "J"
     THEN /\ Leave(t, Raised(Exc("AttributeError", None, 0)))
          /\ UNCHANGED <<command, arg, sensors>>
     ELSE /\ command' = [command EXCEPT ![t] = SET_COMMAND]
          /\ arg' = [arg EXCEPT ![t] = <<encodeToken("B", attr[t], value[t])>>]
          /\ sensors' = SetItem(sensors, attr[t],
                                [sensors.map[attr[t]] EXCEPT !.value = value[t]])
          /\ Await(t, "async_send_command", "sc_entry")
  /\ UNCHANGED <<coord, soc, exchanged, query, attr, value, reply, self_commands,
                 command_is_running, last_error, initialized, initializing, status, aux>>

\* async_set_state without the test of sensor_type "J"
ss_entry_no_readonly_test(t) ==
  /\ pc[t] = "ss_entry"
  /\ CanRun(t)
  /\ IF sensors.tag = "None"
     THEN /\ Leave(t, Raised(Exc("TypeError", None, 0)))
          /\ UNCHANGED <<command, arg>>
     ELSE IF ~HasKey(sensors, attr[t])
     THEN /\ Leave(t, Raised(Exc("AttributeError", None, 0)))
          /\ UNCHANGED <<command, arg>>
     ELSE /\ command' = [command EXCEPT ![t] = SET_COMMAND]
          /\ arg' = [arg EXCEPT ![t] = <<encodeToken("B", attr[t], value[t])>>]
          /\ Await(t, "async_send_command", "sc_entry")
  /\ UNCHANGED <<coord, soc, exchanged, query, attr, value, reply, dev, aux>>

\* the attribute checks and the set command
ss_entry(t) ==
  /\ pc[t] = "ss_entry"
  /\ CanRun(t)
  /\ IF sensors.tag = "None"
     THEN /\ Leave(t, Raised(Exc("TypeError", None, 0)))
          /\ UNCHANGED <<command, arg>>
     ELSE IF ~HasKey(sensors, attr[t])
     THEN /\ Leave(t, Raised(Exc("AttributeError", None, 0)))
          /\ UNCHANGED <<command, arg>>
     ELSE IF sensors.map[attr[t]].sensor_type = "J"
     THEN /\ Leave(t, Raised(Exc("AttributeError", None, 0)))
          /\ UNCHANGED <<command, arg>>
     ELSE /\ command' = [command EXCEPT ![t] = SET_COMMAND]
          /\ arg' = [arg EXCEPT ![t] = <<encodeToken("B", attr[t], value[t])>>]
          /\ Await(t, "async_send_command", "sc_entry")
  /\ UNCHANGED <<coord, soc, exchanged, query, attr, value, reply, dev, aux>>

\* async_set_state caching the value of the echoed reading
ss_ret_cache_echo(t) ==
  /\ pc[t] = "ss_ret"
  /\ CanRun(t)
  /\ LET r == result[t] IN
     IF r.tag = "exc"
     THEN /\ Leave(t, IF r.exc.kind \in {"FourHeatCommandError", "InvalidMessage",
                                        "InvalidCommand"}
                      THEN Raised(Exc("FourHeatCommandError", r.exc, r.exc.id))
                      ELSE r)
          /\ UNCHANGED sensors
     ELSE IF sensors.tag = "None" \/ ~HasKey(sensors, attr[t])
     THEN /\ Leave(t, Raised(Exc(IF sensors.tag = "None" THEN "TypeError" ELSE "KeyError",
                                 None, exchanges)))
          /\ UNCHANGED sensors
     ELSE /\ sensors' = SetItem(sensors, attr[t],
                                [sensors.map[attr[t]] EXCEPT
                                   !.value = ParseData(reply[t]).sensors[1].value])
          /\ Leave(t, Returned(PyTrue))
  /\ UNCHANGED <<coord, self_commands, locals, command_is_running, last_error, initialized, initializing,
                 status, aux>>

\* acknowledged: cache the written value; command errors: FourHeatCommandError
ss_ret(t) ==
  /\ pc[t] = "ss_ret"
  /\ CanRun(t)
  /\ LET r == result[t] IN
     IF r.tag = "exc"
     THEN /\ Leave(t, IF r.exc.kind \in {"FourHeatCommandError", "InvalidMessage",
                                        "InvalidCommand"}
                      THEN Raised(Exc("FourHeatCommandError", r.exc, r.exc.id))
                      ELSE r)
          /\ UNCHANGED sensors
     ELSE IF sensors.tag = "None" \/ ~HasKey(sensors, attr[t])
     THEN /\ Leave(t, Raised(Exc(IF sensors.tag = "None" THEN "TypeError" ELSE "KeyError",
                                 None, exchanges)))
          /\ UNCHANGED sensors
     ELSE /\ sensors' = SetItem(sensors, attr[t],
                                [sensors.map[attr[t]] EXCEPT !.value = value[t]])
          /\ Leave(t, Returned(PyTrue))
  /\ UNCHANGED <<coord, self_commands, locals, command_is_running, last_error, initialized, initializing,
                 status, aux>>

\* --------------------------------------------------------- async_get_state
\* the attr argument of async_get_state (str | list) with its type
PyStr(id) == [tag |-> "str", val |-> id]
PyList(ids) == [tag |-> "list", val |-> ids]

\* for item in attr: the characters of a str, the elements of a list
RequestedItems(a) ==
  IF a.tag = "str" THEN [i \in 1..Len(a.val) |-> <<a.val[i]>>] ELSE a.val

\* arg: [token] for a str, one list [token] appended for each element of a list
GetArg(a) ==
  IF a.tag = "list"
  THEN [i \in 1..Len(a.val) |-> <<encodeToken("I", a.val[i], <<0>>)>>]
  ELSE <<encodeToken("I", a.val, <<0>>)>>

\* the two membership checks and the get command
gs_entry(t) ==
  /\ pc[t] = "gs_entry"
  /\ CanRun(t)
  /\ LET a == attr[t]
         items == RequestedItems(a)
     IN IF sensors.tag = "None" /\ (a.tag = "str" \/ items # <<>>)
        THEN /\ Leave(t, Raised(Exc("TypeError", None, 0)))
             /\ UNCHANGED <<command, arg>>
        ELSE IF a.tag = "str" /\ ~HasKey(sensors, a.val)
        THEN /\ Leave(t, Raised(Exc("AttributeError", None, 0)))
             /\ UNCHANGED <<command, arg>>
        ELSE IF \E i \in 1..Len(items) : ~HasKey(sensors, items[i])
        THEN /\ Leave(t, Raised(Exc("AttributeError", None, 0)))
             /\ UNCHANGED <<command, arg>>
        ELSE /\ command' = [command EXCEPT ![t] = GET_COMMAND]
             /\ arg' = [arg EXCEPT ![t] = GetArg(a)]
             /\ Await(t, "async_send_command", "sc_entry")
  /\ UNCHANGED <<coord, soc, exchanged, query, attr, value, reply, dev, aux>>

\* the loop as an upsert: a reading for an unknown id is inserted
RECURSIVE ApplyReadings_upsert(_, _)
ApplyReadings_upsert(sens, items) ==
  IF items = <<>> THEN [sens |-> sens, err |-> "none"]
  ELSE IF sens.tag = "None" THEN [sens |-> sens, err |-> "TypeError"]
  ELSE ApplyReadings_upsert(SetItem(sens, Head(items).id, Entry(Head(items))),
                            Tail(items))

\* for sensor in result["sensors"]: self.sensors[sensor["id"]]["value"] = ...,
\* ["sensor_type"] = ...; the dict afterwards and the exception raised, if any
RECURSIVE ApplyReadings(_, _)
ApplyReadings(sens, items) ==
  IF items = <<>> THEN [sens |-> sens, err |-> "none"]
  ELSE IF sens.tag = "None" THEN [sens |-> sens, err |-> "TypeError"]
  ELSE IF ~HasKey(sens, Head(items).id) THEN [sens |-> sens, err |-> "KeyError"]
  ELSE ApplyReadings(
         SetItem(sens, Head(items).id,
                 [sens.map[Head(items).id] EXCEPT !.value = Head(items).value,
                                                  !.sensor_type = Head(items).sensor_type]),
         Tail(items))

\* the readings go into sensors and the result is returned; command errors are wrapped
gs_ret(t) ==
  /\ pc[t] = "gs_ret"
  /\ CanRun(t)
  /\ LET r == result[t] IN
     IF r.tag = "exc"
     THEN /\ Leave(t, IF r.exc.kind \in {"FourHeatCommandError", "InvalidMessage",
                                        "InvalidCommand"}
                      THEN Raised(Exc("FourHeatCommandError", r.exc, r.exc.id))
                      ELSE r)
          /\ UNCHANGED sensors
     ELSE LET out == ApplyReadings(sensors, r.val.sensors)
          IN /\ sensors' = out.sens
             /\ Leave(t, IF out.err = "none" THEN r
                         ELSE Raised(Exc(out.err, None, exchanges)))
  /\ UNCHANGED <<coord, self_commands, locals, command_is_running, last_error, initialized, initializing,
                 status, aux>>

\* ------------------------------------------------------------- the callers
CommandNames == {"info", "get", "set", "on", "off", "unblock", "turn_on"}

\* a caller starts a coroutine
Start(t, frame, label) ==
  /\ pc[t] = "idle"
  /\ running = NoTask
  /\ calls < MaxCalls
  /\ calls' = calls + 1
  /\ pc' = [pc EXCEPT ![t] = label]
  /\ stack' = [stack EXCEPT ![t] = <<frame>>]
  /\ result' = [result EXCEPT ![t] = NoResult]
  /\ running' = t

\* the task ends, its frames are released and the loop is free
EndTask(t) ==
  /\ pc[t] = "done"
  /\ CanRun(t)
  /\ pc' = [pc EXCEPT ![t] = "idle"]
  /\ running' = NoTask
  /\ stack' = [stack EXCEPT ![t] = <<>>]
  /\ result' = [result EXCEPT ![t] = NoResult]
  /\ reply' = [reply EXCEPT ![t] = NoText]
  /\ command' = [command EXCEPT ![t] = ""]
  /\ arg' = [arg EXCEPT ![t] = <<>>]
  /\ query' = [query EXCEPT ![t] = <<>>]
  /\ attr' = [attr EXCEPT ![t] = <<>>]
  /\ value' = [value EXCEPT ![t] = <<0>>]
  /\ soc' = [soc EXCEPT ![t] = "none"]
  /\ exchanged' = [exchanged EXCEPT ![t] = <<>>]

\* the caller has its answer or its exception
task_done(t) ==
  /\ EndTask(t)
  /\ UNCHANGED <<coord, dev, aux>>

call_async_send_command(t) ==
  /\ Start(t, "async_send_command", "sc_entry")
  /\ \E c \in CommandNames : command' = [command EXCEPT ![t] = c]
  /\ arg' = [arg EXCEPT ![t] = <<>>]
  /\ UNCHANGED <<coord, soc, exchanged, query, attr, value, reply, dev, lazy, exchanges>>

call_async_update_data(t) ==
  /\ Start(t, "async_update_data", "ud_entry")
  /\ UNCHANGED <<coord, locals, dev, lazy, exchanges>>

call_initialize(t) ==
  /\ Start(t, "initialize", "in_entry")
  /\ UNCHANGED <<coord, locals, dev, lazy, exchanges>>

WrittenIds == {DEVICE_STATE_SENSOR, ID_POWER, ID_ABSENT}

call_async_set_state(t) ==
  /\ Start(t, "async_set_state", "ss_entry")
  /\ \E a \in WrittenIds : attr' = [attr EXCEPT ![t] = a]
  /\ \E v \in WrittenValues : value' = [value EXCEPT ![t] = v]
  /\ UNCHANGED <<coord, soc, exchanged, command, arg, query, reply, dev, lazy, exchanges>>

RequestedAttrs ==
  {PyStr(ID_POWER), PyStr(ID_ABSENT), PyList(<<ID_POWER>>),
   PyList(<<ID_POWER, ID_ABSENT>>)}

call_async_get_state(t) ==
  /\ Start(t, "async_get_state", "gs_entry")
  /\ \E a \in RequestedAttrs : attr' = [attr EXCEPT ![t] = a]
  /\ UNCHANGED <<coord, soc, exchanged, command, arg, query, value, reply, dev, lazy, exchanges>>

Next ==
  \/ \E t \in Tasks :
       \/ call_async_send_command(t)
       \/ call_async_get_state(t)
       \/ gs_entry(t)
       \/ gs_ret(t)
       \/ call_async_update_data(t)
       \/ call_initialize(t)
       \/ call_async_set_state(t)
       \/ ud_entry(t)
       \/ ud_ret_info(t)
       \/ ud_ret_get(t)
       \/ in_entry(t)
       \/ in_ret_info(t)
       \/ in_ret_error(t)
       \/ ss_entry(t)
       \/ ss_ret(t)
       \/ task_done(t)
       \/ sc_entry(t)
       \/ sc_ret(t)
       \/ sr_check(t)
       \/ sr_wake(t)
       \/ sr_enter(t)
       \/ sr_connect(t)
       \/ sr_send(t)
       \/ sr_recv(t)
       \/ sr_parse(t)
  \/ i_am_lazy

Spec == Init /\ [][Next]_vars

\* callers that only send commands, for the progress of the cooldown
CommandSteps(t) ==
  \/ task_done(t) \/ sc_entry(t) \/ sc_ret(t)
  \/ sr_check(t) \/ sr_wake(t) \/ sr_enter(t)
  \/ sr_connect(t) \/ sr_send(t) \/ sr_recv(t) \/ sr_parse(t)

CommandNext ==
  \/ \E t \in Tasks :
       \/ call_async_send_command(t)
       \/ CommandSteps(t)
  \/ i_am_lazy

\* asyncio runs every ready callback in turn: a running segment always goes on,
\* and a timer that is due again and again is run
FairSpec ==
  /\ Init
  /\ [][CommandNext]_vars
  /\ WF_vars(\E t \in Tasks : CommandSteps(t))
  /\ SF_vars(i_am_lazy)

\* ------------------------------------- FourHeatCoordinator._async_update_data
\* the retry budget of one update cycle
RETRY_UPDATE == 2

\* the exception classes derived from FourHeatError
FourHeatErrors ==
  {"FourHeatError", "DeviceConnectionError", "FourHeatCommandError", "InvalidCommand",
   "InvalidMessage"}

\* the start of a cycle without the test of _update_is_running
cu_entry_no_guard(t) ==
  /\ pc[t] = "cu_entry"
  /\ CanRun(t)
  /\ update_is_running' = TRUE
  /\ Goto(t, "cu_loop")
  /\ UNCHANGED <<locals, dev, aux, retry_update, last_update_success, last_exception>>

\* if self._update_is_running: return; self._update_is_running = True
cu_entry(t) ==
  /\ pc[t] = "cu_entry"
  /\ CanRun(t)
  /\ IF update_is_running
     THEN Leave(t, Returned(None)) /\ UNCHANGED update_is_running
     ELSE update_is_running' = TRUE /\ Goto(t, "cu_loop")
  /\ UNCHANGED <<locals, dev, aux, retry_update, last_update_success, last_exception>>

\* the loop that raises UpdateFailed at its end when an attempt has failed before
cu_loop_unforgiving(t) ==
  /\ pc[t] = "cu_loop"
  /\ CanRun(t)
  /\ IF retry_update < RETRY_UPDATE
     THEN /\ Await(t, "async_update_data", "ud_entry")
          /\ UNCHANGED <<retry_update, update_is_running>>
     ELSE /\ retry_update' = 0
          /\ update_is_running' = FALSE
          /\ Leave(t, IF last_exception # None
                      THEN Raised(Exc("UpdateFailed", last_exception, exchanges))
                      ELSE Returned(None))
  /\ UNCHANGED <<locals, dev, aux, last_update_success, last_exception>>

\* while self._retry_update < RETRY_UPDATE: await self.device.async_update_data();
\* after the loop: self._retry_update = 0; self._update_is_running = False
cu_loop(t) ==
  /\ pc[t] = "cu_loop"
  /\ CanRun(t)
  /\ IF retry_update < RETRY_UPDATE
     THEN /\ Await(t, "async_update_data", "ud_entry")
          /\ UNCHANGED <<retry_update, update_is_running>>
     ELSE /\ retry_update' = 0
          /\ update_is_running' = FALSE
          /\ Leave(t, Returned(None))
  /\ UNCHANGED <<locals, dev, aux, last_update_success, last_exception>>

\* the attempt is over: the budget is used up on success; except FourHeatError:
\* count the failure and sleep, or raise UpdateFailed when the last cycle failed
cu_ret(t) ==
  /\ pc[t] = "cu_ret"
  /\ CanRun(t)
  /\ LET r == result[t] IN
     IF r.tag = "ret"
     THEN /\ retry_update' = RETRY_UPDATE
          /\ Goto(t, "cu_loop")
          /\ UNCHANGED <<last_update_success, last_exception>>
     ELSE IF r.exc.kind \in FourHeatErrors
     THEN /\ retry_update' = retry_update + 1
          /\ last_exception' = r.exc
          /\ IF last_update_success
             THEN Suspend(t, "cu_sleep") /\ UNCHANGED last_update_success
             ELSE /\ last_update_success' = FALSE
                  /\ Leave(t, Raised(Exc("UpdateFailed", r.exc, r.exc.id)))
     ELSE /\ Leave(t, r)
          /\ UNCHANGED <<retry_update, last_update_success, last_exception>>
  /\ UNCHANGED <<locals, dev, aux, update_is_running>>

\* asyncio.sleep(RETRY_UPDATE_SLEEP) is over
cu_wake(t) ==
  /\ pc[t] = "cu_sleep"
  /\ CanRun(t)
  /\ Goto(t, "cu_loop")
  /\ UNCHANGED <<locals, dev, aux, coord>>

InCycle(t) == stack[t] # <<>> /\ stack[t][1] = "_async_update_data"

\* the framework starts an update cycle
call_async_refresh(t) ==
  /\ Start(t, "_async_update_data", "cu_entry")
  /\ UNCHANGED <<locals, dev, coord, lazy, exchanges>>

\* the framework has the outcome of the cycle: last_update_success is True after
\* a return and False after an exception
refresh_done(t) ==
  /\ InCycle(t)
  /\ EndTask(t)
  /\ last_update_success' = (result[t].tag = "ret")
  /\ UNCHANGED <<dev, aux, retry_update, update_is_running, last_exception>>

\* update cycles on a device that may be initialized
CycleNext ==
  \/ \E t \in Tasks :
       \/ call_async_refresh(t)
       \/ cu_entry(t)
       \/ cu_loop(t)
       \/ cu_ret(t)
       \/ cu_wake(t)
       \/ refresh_done(t)
       \/ call_initialize(t)
       \/ in_entry(t)
       \/ in_ret_info(t)
       \/ in_ret_error(t)
       \/ (~InCycle(t) /\ task_done(t))
       \/ ud_entry(t)
       \/ ud_ret_info(t)
       \/ ud_ret_get(t)
       \/ sc_entry(t)
       \/ sc_ret(t)
       \/ sr_check(t)
       \/ sr_wake(t)
       \/ sr_enter(t)
       \/ sr_connect(t)
       \/ sr_send(t)
       \/ sr_recv(t)
       \/ sr_parse(t)
  \/ i_am_lazy

CycleSpec == Init /\ [][CycleNext]_vars

\* ===================================================================== claims
\* t has seen the gate idle and is before the end of its exchange
Proceeding(t) == pc[t] = "sr_enter" \/ InExchange(t)

\* C1: no exchange begins while another has begun and not ended, and two
\* callers never both see the gate IDLE and both proceed; while an exchange is
\* in flight the gate holds its query.
C1_SingleFlight ==
  /\ \A t, u \in Tasks : (t # u /\ Proceeding(t)) => ~Proceeding(u)
  /\ \A t \in Tasks : InExchange(t) => command_is_running = GateQuery(query[t])

\* an exchange is in flight while another caller is inside send_and_receive
C1_Witness ==
  \E t, u \in Tasks : t # u /\ InExchange(t) /\ pc[u] = "sr_sleep"

\* C2: from a failed exchange until its cooldown task has run, no caller
\* starts an exchange.
C2_HeldOff ==
  lazy > 0 => \A t \in Tasks : ~Proceeding(t)

\* a transport error started a cooldown and a later caller is waiting
C2_Witness ==
  /\ lazy > 0
  /\ last_error # None /\ last_error.cause.kind = "OSError"
  /\ \E t \in Tasks : pc[t] = "sr_sleep"

\* C3: a gate left busy by a failed exchange becomes idle again once the
\* cooldown task runs, whether or not a new command arrives.
C3_CooldownEnds ==
  (lazy > 0 /\ GateBusy) ~> ~GateBusy

\* the gate is busy after a failure and no caller is active
C3_Witness ==
  /\ lazy > 0 /\ GateBusy
  /\ \A t \in Tasks : pc[t] = "idle"

\* C4: async_send_command with a name outside the command table raises
\* InvalidCommand, begins no exchange and leaves the gate flag as it was.
C4_UnknownCommand ==
  [][\A t \in Tasks :
       (pc[t] = "sc_entry" /\ command[t] \notin DOMAIN commands /\ pc'[t] # pc[t])
       => /\ pc'[t] = "done"
          /\ result'[t] = Raised(Exc("InvalidCommand", None, 0))
          /\ command_is_running' = command_is_running
          /\ exchanges' = exchanges]_vars

\* an unknown command was refused while the gate was busy
C4_Witness ==
  \E t \in Tasks :
    /\ pc[t] = "done" /\ stack[t] = <<"async_send_command">>
    /\ result[t] = Raised(Exc("InvalidCommand", None, 0))
    /\ GateBusy

\* send_and_receive has just returned to, or raised into, the coroutine awaiting it
SrReturned(t) == pc[t] \in {"sc_ret", "ud_ret_info", "in_ret_error"}

\* async_send_command has just returned to, or raised into, its caller
ScReturned(t) ==
  \/ pc[t] \in {"ud_ret_get", "in_ret_info", "ss_ret", "gs_ret"}
  \/ pc[t] = "done" /\ stack[t] = <<"async_send_command">>

RECURSIVE InChain(_, _)
\* e or one of its causes is of class kind
InChain(e, kind) ==
  IF e.kind = "None" THEN FALSE ELSE e.kind = kind \/ InChain(e.cause, kind)

\* C5 (as stated): text that is not a well-formed list literal fails the
\* exchange with InvalidMessage, last_error is set and the gate is IDLE again.
C5_MalformedIsInvalidMessage ==
  \A t \in Tasks :
    (SrReturned(t) /\ reply[t].form = "unterminated")
    => /\ result[t].tag = "exc"
       /\ result[t].exc.kind = "InvalidMessage"
       /\ last_error # None
       /\ ~GateBusy

\* C6: when an exchange ends with a non-empty, parseable response the gate is
\* IDLE and last_error is None at the moment send_and_receive returns.
C6_SuccessClears ==
  \A t \in Tasks :
    (SrReturned(t) /\ result[t].tag = "ret")
    => /\ ~GateBusy
       /\ last_error = None

\* an exchange succeeded after a failed one had left the gate busy for a waiter
C6_Witness ==
  \E t, u \in Tasks :
    /\ SrReturned(t) /\ result[t].tag = "ret" /\ reply[t].form = "list"
    /\ pc[u] = "sr_sleep"

\* C7: a socket failure during async_send_command of a known command reaches
\* the caller as FourHeatCommandError caused by the DeviceConnectionError that
\* last_error holds at that moment.
C7_TransportFailureWrapped ==
  \A t \in Tasks :
    (ScReturned(t) /\ command[t] \in DOMAIN commands /\ reply[t].form = "none")
    => /\ result[t].tag = "exc"
       /\ result[t].exc.kind = "FourHeatCommandError"
       /\ result[t].exc.cause.kind = "DeviceConnectionError"
       /\ result[t].exc.cause.cause.kind = "OSError"
       /\ last_error = result[t].exc.cause

\* the caller of async_send_command holds the error of a failed socket call
C7_Witness ==
  \E t \in Tasks :
    /\ pc[t] = "done" /\ stack[t] = <<"async_send_command">>
    /\ command[t] \in DOMAIN commands /\ reply[t].form = "none"
    /\ result[t].tag = "exc"

\* t holds an error that comes from a failed exchange
HoldsExchangeError(t) ==
  /\ pc[t] \in {"sc_ret", "ud_ret_info", "in_ret_error", "ud_ret_get",
                "in_ret_info", "ss_ret", "gs_ret", "done"}
  /\ result[t].tag = "exc"
  /\ InChain(result[t].exc, "DeviceConnectionError")

\* C8: the error of a failed exchange travels up to the caller while the
\* cooldown task is still pending and the gate still busy: the failing call
\* does not wait for the cooldown.
C8_FailurePrompt ==
  \A t \in Tasks : HoldsExchangeError(t) => (lazy > 0 /\ GateBusy)

\* the outermost caller has the error and the cooldown has not run yet
C8_Witness ==
  \E t \in Tasks :
    /\ HoldsExchangeError(t) /\ pc[t] = "done"
    /\ stack[t] = <<"async_update_data">>
    /\ lazy > 0

\* C9: an empty decoded response gives no result: send_and_receive raises
\* DeviceConnectionError, for every query.
C9_EmptyRaises ==
  \A t \in Tasks :
    (SrReturned(t) /\ reply[t].form = "empty")
    => /\ result[t].tag = "exc"
       /\ result[t].exc.kind = "DeviceConnectionError"

\* an info poll got an empty response
C9_Witness ==
  \E t \in Tasks :
    /\ pc[t] = "ud_ret_info" /\ reply[t].form = "empty"
    /\ result[t].tag = "exc"

\* C10 (as stated): the set command reports success exactly when the parsed
\* status equals query[0] and the first reading has the written id, the
\* written value and sensor type 'A'.
C10_SetAcknowledged ==
  \A t \in Tasks :
    (pc[t] = "ss_ret" /\ reply[t].form = "list" /\ ParseError(reply[t]) = "none")
    => LET d == ParseData(reply[t])
       IN (result[t] = Returned(PyTrue))
          <=> /\ d.result = query[t][1]
              /\ Len(d.sensors) > 0
              /\ d.sensors[1].id = attr[t]
              /\ d.sensors[1].value = value[t]
              /\ d.sensors[1].sensor_type = "A"

\* a caller holds the outcome of async_send_command(c) for a parsed response
ScParsed(t) ==
  /\ ScReturned(t)
  /\ reply[t].form = "list"
  /\ ParseError(reply[t]) = "none"

ControlCommands == {ON_COMMAND, OFF_COMMAND, UNBLOCK_COMMAND}

\* C11: on, off and unblock report success exactly when the parsed status is
\* query[0] and the first reading has the id of the command's token, value 0
\* and sensor type 'I'.
C11_ControlAcknowledged ==
  \A t \in Tasks :
    (ScParsed(t) /\ command[t] \in ControlCommands)
    => LET d == ParseData(reply[t])
       IN (result[t] = Returned(PyTrue))
          <=> /\ d.result = query[t][1]
              /\ Len(d.sensors) > 0
              /\ d.sensors[1].id = PySlice(commands[command[t]][3], 1, 6)
              /\ d.sensors[1].value = <<0>>
              /\ d.sensors[1].sensor_type = "I"

\* the on command was acknowledged
C11_Witness ==
  \E t \in Tasks :
    /\ ScParsed(t) /\ command[t] = ON_COMMAND
    /\ result[t] = Returned(PyTrue)

\* C12 (as stated): for set, on, off and unblock a parsed response that does not
\* satisfy the acknowledgement condition, one without readings included, makes
\* async_send_command fail with InvalidMessage and with no other error.
C12_MismatchIsInvalidMessage ==
  \A t \in Tasks :
    (/\ ScParsed(t)
     /\ command[t] \in ControlCommands \cup {SET_COMMAND}
     /\ result[t] # Returned(PyTrue))
    => /\ result[t].tag = "exc"
       /\ result[t].exc.kind = "InvalidMessage"

\* C13 (as stated): for info, a parsed status of INFO or OK returns the result
\* to the caller, and a parsed status of ERROR does not return it.
C13_InfoErrorNotReturned ==
  \A t \in Tasks :
    (ScParsed(t) /\ command[t] = INFO_COMMAND)
    => LET d == ParseData(reply[t])
       IN /\ d.result \in {RESULT_INFO, RESULT_OK} => result[t] = Returned(d)
          /\ d.result = RESULT_ERROR => result[t].tag # "ret"

\* the ids the caller of async_get_state asked for
RequestedIds(a) == IF a.tag = "str" THEN <<a.val>> ELSE a.val

\* t is inside async_get_state
InGetState(t) == stack[t] # <<>> /\ stack[t][1] = "async_get_state"

\* the validation of C14: async_get_state for ids present in sensors, given as
\* one string or as a list, is not refused with an attribute error
PresentIdAccepted ==
  \A t \in Tasks :
    (/\ InGetState(t) /\ pc[t] = "done"
     /\ \A i \in 1..Len(RequestedIds(attr[t])) :
          HasKey(sensors, RequestedIds(attr[t])[i]))
    => ~(result[t].tag = "exc" /\ result[t].exc.kind = "AttributeError")

\* the query of C14: the get that is dispatched carries the extra tokens
\* I<id>000000000000, one for each requested id
GetTokens ==
  \A t \in Tasks :
    (InGetState(t) /\ pc[t] \notin {"gs_entry", "done"})
    => /\ Len(arg[t]) = Len(RequestedIds(attr[t]))
       /\ \A i \in 1..Len(arg[t]) :
            /\ Len(arg[t][i]) = 1 + 5 + VALUE_WIDTH
            /\ arg[t][i] = encodeToken("I", RequestedIds(attr[t])[i], <<0>>)

\* C14 (as stated): async_get_state for ids present in sensors, given as one
\* string or as a list, passes the validation and dispatches a get whose extra
\* tokens are I<id>000000000000 for each requested id.
C14_GetState == PresentIdAccepted /\ GetTokens

\* sensors holds id with sensor_type 'J'
ReadOnly(id) ==
  sensors.tag = "dict" /\ HasKey(sensors, id) /\ sensors.map[id].sensor_type = "J"

\* C15: async_set_state on an id whose cached sensor_type is 'J' fails at once
\* with an attribute error; no exchange begins, the gate and sensors stay as
\* they were.
C15_ReadOnlyRefused ==
  [][\A t \in Tasks :
       (pc[t] = "ss_entry" /\ ReadOnly(attr[t]) /\ pc'[t] # pc[t])
       => /\ pc'[t] = "done"
          /\ result'[t] = Raised(Exc("AttributeError", None, 0))
          /\ exchanges' = exchanges
          /\ command_is_running' = command_is_running
          /\ sensors' = sensors]_vars

\* a write to a read-only attribute was refused
C15_Witness ==
  \E t \in Tasks :
    /\ pc[t] = "done" /\ stack[t] = <<"async_set_state">>
    /\ ReadOnly(attr[t])
    /\ result[t] = Raised(Exc("AttributeError", None, 0))

\* C16: when the device acknowledges async_set_state(id, value), with id still
\* in sensors, the call returns True, sensors[id].value is the written value
\* (not the echoed one), and sensors[id].sensor_type, the other fields of the
\* entry and every other entry are as before.
C16_WrittenValueCached ==
  [][\A t \in Tasks :
       (/\ pc[t] = "ss_ret" /\ pc'[t] # pc[t]
        /\ result[t] = Returned(PyTrue)
        /\ sensors.tag = "dict" /\ HasKey(sensors, attr[t]))
       => /\ result'[t] = Returned(PyTrue)
          /\ sensors'.tag = "dict"
          /\ sensors'.keys = sensors.keys
          /\ sensors'.map[attr[t]].value = value[t]
          /\ sensors'.map[attr[t]] = [sensors.map[attr[t]] EXCEPT !.value = value[t]]
          /\ \A i \in 1..Len(sensors.keys) :
               sensors.keys[i] # attr[t]
               => sensors'.map[sensors.keys[i]] = sensors.map[sensors.keys[i]]]_vars

\* a write was acknowledged and the cached value is the written one, which the
\* echoed reading does not equal
C16_Witness ==
  \E t \in Tasks :
    /\ pc[t] = "done" /\ stack[t] = <<"async_set_state">>
    /\ result[t] = Returned(PyTrue)
    /\ sensors.map[attr[t]].value = value[t]
    /\ ParseData(reply[t]).sensors[1].value # value[t]
    /\ Len(sensors.keys) > 1

\* t is inside async_set_state or async_get_state
InExplicit(t) ==
  stack[t] # <<>> /\ stack[t][1] \in {"async_set_state", "async_get_state"}

\* one of the ids requested from async_get_state is not a key of sensors
SomeIdAbsent(a) ==
  \E i \in 1..Len(RequestedIds(a)) : ~HasKey(sensors, RequestedIds(a)[i])

\* C17: no step of async_set_state or async_get_state changes the key set of
\* sensors; on an id absent from the sensors mapping both fail with an
\* attribute error before any exchange; a get response with a reading for an
\* absent id ends the call with an error.
C17_NoInsert ==
  [][\A t \in Tasks :
       (InExplicit(t) /\ pc'[t] # pc[t])
       => /\ sensors'.tag = sensors.tag
          /\ sensors'.keys = sensors.keys
          /\ (/\ sensors.tag = "dict"
              /\ \/ pc[t] = "ss_entry" /\ ~HasKey(sensors, attr[t])
                 \/ pc[t] = "gs_entry" /\ SomeIdAbsent(attr[t]))
             => /\ pc'[t] = "done"
                /\ result'[t] = Raised(Exc("AttributeError", None, 0))
                /\ exchanges' = exchanges
          /\ (/\ pc[t] = "gs_ret" /\ result[t].tag = "ret"
              /\ \E i \in 1..Len(result[t].val.sensors) :
                   ~HasKey(sensors, result[t].val.sensors[i].id))
             => /\ pc'[t] = "done"
                /\ result'[t].tag = "exc"]_vars

\* a get response carried a reading for an id that sensors does not hold, and
\* the call ended with KeyError
C17_Witness ==
  \E t \in Tasks :
    /\ pc[t] = "done" /\ stack[t] = <<"async_get_state">>
    /\ result[t].tag = "exc" /\ result[t].exc.kind = "KeyError"
    /\ reply[t].form = "list"
    /\ ~HasKey(sensors, ParseData(reply[t]).sensors[1].id)

\* C18 (as stated): when initialize() with async_init false returns without
\* raising, initialized is true and sensors is a mapping built from the
\* readings of the info response.
C18_ReturnMeansInitialized ==
  \A t \in Tasks :
    (/\ pc[t] = "done" /\ stack[t] = <<"initialize">>
     /\ command[t] = INFO_COMMAND
     /\ result[t].tag = "ret")
    => /\ initialized
       /\ sensors.tag = "dict"

\* C19: initialize() called while _initializing is set raises RuntimeError at
\* once, begins no exchange and leaves the guard set; every other exit of
\* initialize(), by return or by any exception, leaves the guard false.
C19_InitializingGuard ==
  [][\A t \in Tasks :
       (stack[t] = <<"initialize">> /\ pc[t] # "done" /\ pc'[t] = "done")
       => IF pc[t] = "in_entry" /\ initializing
          THEN /\ result'[t] = Raised(Exc("RuntimeError", None, 0))
               /\ initializing'
               /\ exchanges' = exchanges
               /\ command_is_running' = command_is_running
          ELSE ~initializing']_vars

\* a second initialize() was refused while the first waits at the gate with
\* its guard still set
C19_Witness ==
  \E t, u \in Tasks :
    /\ pc[t] = "done" /\ stack[t] = <<"initialize">>
    /\ result[t] = Raised(Exc("RuntimeError", None, 0))
    /\ stack[u] # <<>> /\ stack[u][1] = "initialize" /\ pc[u] = "sr_sleep"
    /\ initializing

\* some reading of items has this id
InReadings(items, id) == \E i \in 1..Len(items) : items[i].id = id

\* C20: a successful async_update_data whose response status is INFO or OK
\* leaves every reading's value and sensor_type under its id in sensors,
\* whether the id was present or not, removes no id, and leaves the entries of
\* the ids without a reading as they were.
C20_Merge ==
  [][\A t \in Tasks :
       (/\ pc[t] = "ud_ret_info" /\ pc'[t] = "done"
        /\ result[t].tag = "ret" /\ result'[t].tag = "ret"
        /\ result[t].val.result \in {RESULT_INFO, RESULT_OK}
        /\ sensors.tag = "dict")
       => LET items == result[t].val.sensors
          IN /\ sensors'.tag = "dict"
             /\ \A i \in 1..Len(items) :
                  /\ HasKey(sensors', items[i].id)
                  /\ sensors'.map[items[i].id].value = items[i].value
                  /\ sensors'.map[items[i].id].sensor_type = items[i].sensor_type
             /\ \A k \in 1..Len(sensors.keys) :
                  /\ HasKey(sensors', sensors.keys[k])
                  /\ ~InReadings(items, sensors.keys[k])
                     => sensors'.map[sensors.keys[k]] = sensors.map[sensors.keys[k]]]_vars

\* a poll replaced the value of a sensor already present and kept the sensor
\* the response did not mention
C20_Witness ==
  \E t \in Tasks :
    /\ pc[t] = "done" /\ stack[t] = <<"async_update_data">>
    /\ result[t] = Returned(None)
    /\ reply[t] = Answer(RESULT_OK, <<SHORT_TOKEN, encodeToken("B", ID_POWER, <<4, 2>>)>>)
    /\ sensors.tag = "dict"
    /\ sensors.keys = <<DEVICE_STATE_SENSOR, ID_POWER>>
    /\ sensors.map[ID_POWER].value = <<4, 2>>

KnownStatus == {RESULT_INFO, RESULT_OK, RESULT_ERROR}

\* C21 (as stated): async_update_data and initialize raise on a response whose
\* status is none of INFO, OK, ERROR.
C21_UnknownStatusRaises ==
  \A t \in Tasks :
    (/\ pc[t] = "done"
     /\ stack[t] \in {<<"async_update_data">>, <<"initialize">>}
     /\ reply[t].form = "list" /\ ParseError(reply[t]) = "none"
     /\ ParseData(reply[t]).result \notin KnownStatus)
    => result[t].tag = "exc"

\* the sensor tokens of a response text
SensorTokens(text) == PyFrom(text.items, 2)

\* every sensor token is short, has length exactly 7, or carries digits from index 7 on
TokensParseable(text) ==
  \A i \in 1..Len(SensorTokens(text)) :
    LET tok == SensorTokens(text)[i]
    IN Len(tok) <= 7 \/ IsNumeral(PyFrom(tok, 7))

\* C22 (as stated): tokens of length 6 or less are dropped without error and
\* tokens of length 7 or more each give a reading; a token of length exactly 7
\* does not fail the exchange.
C22_TokenLengthBoundary ==
  \A t \in Tasks :
    (/\ SrReturned(t)
     /\ reply[t].form = "list" /\ Len(reply[t].items) >= 2
     /\ TokensParseable(reply[t]))
    => /\ result[t].tag = "ret"
       /\ Len(result[t].val.sensors)
            = Len(SelectSeq(SensorTokens(reply[t]), LongEnough))

TypeChars == {"A", "B", "I", "J"}

SampleIds == {DEVICE_STATE_SENSOR, ID_POWER, ID_ON, ID_ABSENT}

\* values that fit the 12-digit field, the largest power of ten among them
FieldValues == {<<0>>, <<5>>, V7, <<4, 2>>, <<1, 2, 3>>, VBIG}

\* C23 (as stated): a sensor token typeChar + id + value zero-padded to 12
\* digits in a response is parsed back to {id, sensor_type = typeChar, value}
\* with the same value, for every value below 10^12.
C23_RoundTrip ==
  \A t \in Tasks :
    (SrReturned(t) /\ result[t].tag = "ret" /\ reply[t].form = "list")
    => LET kept == SelectSeq(SensorTokens(reply[t]), LongEnough)
       IN \A i \in 1..Len(kept) :
            \A tc \in TypeChars, id \in SampleIds, v \in FieldValues :
              kept[i] = encodeToken(tc, id, v)
              => result[t].val.sensors[i]
                   = [id |-> id, sensor_type |-> tc, value |-> v]

\* t is inside the send_and_receive that its async_send_command awaits
Dispatching(t) ==
  /\ Len(stack[t]) >= 2
  /\ stack[t][Len(stack[t])] = "send_and_receive"
  /\ stack[t][Len(stack[t]) - 1] = "async_send_command"

\* C24: the query async_send_command hands to send_and_receive is the table's
\* base tokens followed by the extra tokens, in order and unmodified (the base
\* tokens alone without extras), and the command table is the one the device
\* was constructed with, after any number of dispatches.
C24_QueryBuilt ==
  /\ self_commands = commands
  /\ \A t \in Tasks :
       Dispatching(t)
       => /\ command[t] \in DOMAIN commands
          /\ query[t] = commands[command[t]] \o arg[t]
          /\ SubSeq(query[t], 1, Len(commands[command[t]])) = commands[command[t]]

\* a get with extra tokens is in its exchange after earlier dispatches
C24_Witness ==
  \E t \in Tasks :
    /\ Dispatching(t) /\ InExchange(t)
    /\ arg[t] # <<>>
    /\ exchanges >= 2

\* ---- C25
\* the cycle of t has used up its budget and its last attempt failed
Exhausted(t) ==
  /\ pc[t] = "cu_loop"
  /\ retry_update >= RETRY_UPDATE
  /\ result[t].tag = "exc"

\* C25: when every attempt of an update cycle failed and RETRY_UPDATE is used up,
\* the cycle ends by raising UpdateFailed and never by returning
C25_ExhaustedRaisesUpdateFailed ==
  [][\A t \in Tasks :
       (Exhausted(t) /\ pc'[t] = "done")
         => (result'[t].tag = "exc" /\ result'[t].exc.kind = "UpdateFailed")]_vars

\* ---- C26
\* C26: once send_and_receive has returned or raised, the socket it opened is
\* closed, whichever of connect, send, recv or the parsing ended the call
C26_SocketClosed ==
  \A t \in Tasks :
    (SrReturned(t) /\ exchanged[t] # <<>>) => soc[t] = "closed"

\* ---- C27
\* t's async_send_command raises exception class kind in this step
ScRaises(t, kind) ==
  /\ pc[t] \in {"sc_entry", "sc_ret"}
  /\ pc'[t] # pc[t]
  /\ result'[t].tag = "exc"
  /\ result'[t].exc.kind = kind

\* C27: a refused answer (InvalidMessage after a parsed response) and an unknown
\* command (InvalidCommand) schedule no cooldown and do not take the gate: after
\* InvalidMessage the gate is idle and no cooldown is pending
C27_CooldownOnlyAfterFailure ==
  [][\A t \in Tasks :
       /\ ScRaises(t, "InvalidCommand")
            => (lazy' = lazy /\ command_is_running' = command_is_running
                /\ exchanges' = exchanges)
       /\ (ScRaises(t, "InvalidMessage") /\ result[t].tag = "ret")
            => (lazy' = lazy /\ lazy' = 0 /\ ~GateBusy')]_vars

C27_Witness ==
  \E t \in Tasks :
    /\ pc[t] = "done"
    /\ stack[t] = <<"async_send_command">>
    /\ result[t].tag = "exc"
    /\ result[t].exc.kind = "InvalidMessage"
    /\ ~GateBusy
    /\ lazy = 0
    /\ exchanges >= 2

\* ---- C28
InUpdate(t) == stack[t] # <<>> /\ stack[t][1] = "async_update_data"

TwelveZeros == <<"0", "0", "0", "0", "0", "0", "0", "0", "0", "0", "0", "0">>

\* the info exchange of t's async_update_data has returned status ERROR and the
\* device has registered sensors
ErrorAnswered(t) ==
  /\ InUpdate(t)
  /\ pc[t] = "ud_ret_info"
  /\ result[t].tag = "ret"
  /\ result[t].val.result = RESULT_ERROR
  /\ sensors.tag = "dict"
  /\ sensors.keys # <<>>

OneCommand(t) ==
  /\ stack[t] # <<>>
  /\ stack[t][1] \in {"async_send_command", "async_set_state", "async_get_state"}

\* C29: one call of async_send_command begins at most one exchange, whether the
\* exchange succeeds or fails, and the exchange is that of the query it built
C29_NoSilentRetry ==
  \A t \in Tasks :
    OneCommand(t)
      => /\ Len(exchanged[t]) <= 1
         /\ Len(exchanged[t]) = 1 => exchanged[t][1] = query[t]

C29_Witness ==
  \E t \in Tasks :
    /\ stack[t] = <<"async_send_command">>
    /\ pc[t] = "done"
    /\ result[t].tag = "exc"
    /\ result[t].exc.kind = "FourHeatCommandError"
    /\ Len(exchanged[t]) = 1
    /\ lazy = 1

\* ---- C30
\* t is inside the blocking socket calls of its exchange
InTransport(t) == pc[t] \in {"sr_connect", "sr_send", "sr_recv"}

\* C30: while t is in connect, send or recv only t is held up: a dispatcher whose
\* asyncio.sleep(1) at the gate is over can take its next step
C30_OthersCanStep ==
  \A t, u \in Tasks :
    (t # u /\ InTransport(t) /\ pc[u] = "sr_sleep") => ENABLED sr_wake(u)

\* ---- C31
\* t's update cycle has passed the guard and has not ended
Active(t) == InCycle(t) /\ pc[t] \notin {"cu_entry", "done"}

\* the number of info exchanges in a history of exchanges: one for each attempt
RECURSIVE Attempts(_)
Attempts(h) ==
  IF h = <<>> THEN 0
  ELSE (IF Head(h) = INFO_QUERY THEN 1 ELSE 0) + Attempts(Tail(h))

\* C31: at most one update cycle is active; a cycle started while another one is
\* running returns at once without an attempt; one cycle makes at most
\* RETRY_UPDATE attempts
C31_OneCycle ==
  /\ [](\A t, u \in Tasks : (Active(t) /\ Active(u)) => t = u)
  /\ [](\A t \in Tasks : InCycle(t) => Attempts(exchanged[t]) <= RETRY_UPDATE)
  /\ [][\A t \in Tasks :
          (pc[t] = "cu_entry" /\ update_is_running /\ pc'[t] # pc[t])
            => /\ pc'[t] = "done"
               /\ result'[t] = Returned(None)
               /\ exchanged'[t] = <<>>
               /\ exchanges' = exchanges]_vars

C31_Witness ==
  \E t, u \in Tasks :
    /\ Active(t)
    /\ Attempts(exchanged[t]) = RETRY_UPDATE
    /\ InCycle(u)
    /\ pc[u] = "done"
    /\ result[u] = Returned(None)
    /\ exchanged[u] = <<>>

\* ---- C32
\* t is inside a call of async_update_data
Updating(t) == \E i \in 1..Len(stack[t]) : stack[t][i] = "async_update_data"

\* t's async_update_data ends in this step by raising
UpdateRaises(t) ==
  /\ Updating(t)
  /\ pc[t] \in {"ud_ret_info", "ud_ret_get"}
  /\ pc'[t] # pc[t]
  /\ Len(stack'[t]) <= Len(stack[t])
  /\ result'[t].tag = "exc"

\* C32: a step of async_update_data changes sensors only when the call returns,
\* a call that raises leaves sensors as it was; and a cycle that goes on after a
\* successful attempt ends by returning, whatever failed before in the cycle
C32_TransientFailure ==
  [][\A t \in Tasks :
       /\ (Updating(t) /\ pc'[t] # pc[t] /\ sensors' # sensors)
            => (pc[t] = "ud_ret_info" /\ result'[t] = Returned(None))
       /\ UpdateRaises(t) => sensors' = sensors
       /\ (InCycle(t) /\ pc[t] = "cu_loop" /\ result[t].tag = "ret" /\ pc'[t] # pc[t])
            => (pc'[t] = "done" /\ result'[t] = Returned(None))]_vars

\* a cycle has ended by returning after a failed and then a successful attempt
C32_Witness ==
  \E t \in Tasks :
    /\ InCycle(t)
    /\ pc[t] = "done"
    /\ result[t] = Returned(None)
    /\ Attempts(exchanged[t]) = 2
    /\ last_exception # None
    /\ last_error = None
    /\ sensors.tag = "dict"
    /\ sensors.keys # <<>>

\* ---- C33
\* C33: when no update cycle is active, whichever way the last one ended,
\* _update_is_running is False and _retry_update is 0: the next cycle passes the
\* guard and makes an attempt
C33_CycleEndsReset ==
  (\A t \in Tasks : ~Active(t)) => (~update_is_running /\ retry_update = 0)

\* ---- C34
\* C34: at most one _i_am_lazy timer is pending, and while one is pending the gate
\* is busy and no caller has entered an exchange: the reset of the gate by the
\* timer never releases a gate that a running exchange holds
C34_CooldownReleasesNoLiveGate ==
  /\ [](lazy <= 1)
  /\ [](lazy > 0 => (GateBusy /\ \A t \in Tasks : ~Proceeding(t)))
  /\ [][lazy' < lazy => (\A t \in Tasks : ~Proceeding(t) /\ ~Proceeding(t)')]_vars

\* the timer is pending while a second caller waits at the gate
C34_Witness ==
  /\ lazy = 1
  /\ running = NoTask
  /\ \E t \in Tasks : pc[t] = "sr_sleep" /\ exchanges >= 1

\* ---- C35
InSetState(t) == stack[t] # <<>> /\ stack[t][1] = "async_set_state"

\* t's async_set_state ends in this step by raising
SetStateRaises(t) ==
  /\ InSetState(t)
  /\ pc'[t] = "done"
  /\ pc[t] # "done"
  /\ result'[t].tag = "exc"

\* C35: a step of async_set_state changes sensors only when the call returns True;
\* a call that raises (unknown id, read-only type, failed exchange, refused
\* answer) leaves every entry of sensors as it was
C35_FailedSetLeavesSensors ==
  [][\A t \in Tasks :
       /\ (InSetState(t) /\ pc'[t] # pc[t] /\ sensors' # sensors)
            => (pc[t] = "ss_ret" /\ pc'[t] = "done" /\ result'[t] = Returned(PyTrue))
       /\ SetStateRaises(t) => sensors' = sensors]_vars

\* a write that was sent and failed, with the old value still cached
C35_Witness ==
  \E t \in Tasks :
    /\ InSetState(t)
    /\ pc[t] = "done"
    /\ result[t].tag = "exc"
    /\ result[t].exc.kind = "FourHeatCommandError"
    /\ Len(exchanged[t]) = 1
    /\ sensors.tag = "dict"
    /\ HasKey(sensors, attr[t])
    /\ sensors.map[attr[t]].value # value[t]

\* ---- C36
InInitialize(t) == stack[t] # <<>> /\ stack[t][1] = "initialize"

\* t's initialize, having passed the guard, ends in this step by raising
InitializeRaises(t) ==
  /\ InInitialize(t)
  /\ pc[t] # "done"
  /\ pc'[t] = "done"
  /\ result'[t].tag = "exc"
  /\ result'[t].exc.kind # "RuntimeError"

\* C36: an initialize that passed the guard and raises leaves initialized False;
\* and initialized is True only while sensors is a populated dict
C36_RaiseMeansUninitialized ==
  /\ [][\A t \in Tasks : InitializeRaises(t) => ~initialized']_vars
  /\ [](initialized => (sensors.tag = "dict" /\ sensors.keys # <<>>))

====
